---- MODULE Spec2Model ----
(***************************************************************************)
(* A model of dashboard.py: one Streamlit script run is load_data, the     *)
(* sidebar widgets, the filter pipeline and the render guard.  A DataFrame *)
(* is a sequence of rows; a row carries the index label read_csv gave it   *)
(* and one cell per column.  pandas semantics modelled here are those of   *)
(* the pandas 2.x line the script was written against.                     *)
(***************************************************************************)
EXTENDS Integers, Sequences, FiniteSets, TLC

\* Largest number of data rows of an input file.
MaxRows == 2

\* The missing-value marker of a cell (float NaN in pandas).
NaN == "NaN"

\* Cell texts pd.read_csv parses as missing (a subset of its default list).
NaValues == {"", "NA", "NaN", "nan"}

CatCols == {"Scoring", "Vertikal", "Follow up", "Rep", "Event Outcome"}
TextCols == {"Firma", "Vorname", "Nachname"}
ChartCols == {"Vertikal", "Rep", "Event Outcome", "Scoring"}
Cols == CatCols \cup TextCols

\* One line of the file, as the cell texts of the eight columns.
Line(sc, ve, fu, re, ou, fi, vo, na) ==
    [c \in Cols |-> CASE c = "Scoring" -> sc
                      [] c = "Vertikal" -> ve
                      [] c = "Follow up" -> fu
                      [] c = "Rep" -> re
                      [] c = "Event Outcome" -> ou
                      [] c = "Firma" -> fi
                      [] c = "Vorname" -> vo
                      [] c = "Nachname" -> na]

\* The lines an input file is made of.
LinePool ==
    { Line("A", "Hotel", "Yes", "Alice", "Demo", "Acme", "Ann", "Bob"),
      Line("/", "", "Yes", "Alice", "Demo", "", "Bob", "Bob"),
      Line("", "Bar", "NA", "", "", "", "", ""),
      Line("X", "Bar", "Yes", "Carl", "", "Bob", "", "Ann"),
      Line("C", "Hotel", "Yes", "Alice", "Demo", "Bob", "Bob", "Bob"),
      Line("Unscored", "", "", "Carl", "Demo", "Acme", "", "") }

SeqsUpTo(S, n) == UNION {[1..k -> S] : k \in 0..n}

\* The file at file_path: readable, absent, or unreadable as CSV.
Files ==
    {[status |-> "ok", lines |-> ls] : ls \in SeqsUpTo(LinePool, MaxRows)}
    \cup {[status |-> s, lines |-> <<>>] : s \in {"not_found", "bad"}}

\* The characters of a text, for substring search.
Chars(s) ==
    CASE s = "Acme" -> <<"A", "c", "m", "e">>
      [] s = "Ann" -> <<"A", "n", "n">>
      [] s = "Bob" -> <<"B", "o", "b">>
      [] s = "nan" -> <<"n", "a", "n">>

Lower(ch) ==
    CASE ch = "A" -> "a"
      [] ch = "B" -> "b"
      [] ch = "C" -> "c"
      [] ch = "N" -> "n"
      [] ch = "O" -> "o"
      [] OTHER -> ch

\* What the user may type into the search box.
SearchTerms ==
    { <<>>, <<"N">>, <<".">>, <<"C", ".", "e">>, <<"O", "b">> }

None == [isNone |-> TRUE, rows |-> <<>>]
DataFrame(rs) == [isNone |-> FALSE, rows |-> rs]

VARIABLES file, cache, pc, df, options, selected, search_term, df_filtered,
          messages, sections, kpi, counts, ran

vars == <<file, cache, pc, df, options, selected, search_term, df_filtered,
          messages, sections, kpi, counts, ran>>

----
\* pd.read_csv: na_values become NaN, rows get the labels 0, 1, ...
ReadCell(c) == IF c \in NaValues THEN NaN ELSE c

read_csv(f) ==
    [i \in 1..Len(f.lines) |->
        [label |-> i - 1, cells |-> [c \in Cols |-> ReadCell(f.lines[i][c])]]]

fillna(v, value) == IF v = NaN THEN value ELSE v

replace(v, to_replace, value) == IF v \in to_replace THEN value ELSE v

\* CleanScoring without the replace of the placeholders.
CleanScoring_FillnaOnly(v) == fillna(v, "Unscored")

\* df['Scoring'].fillna('Unscored').replace(['/', ''], 'Unscored')
CleanScoring(v) == replace(fillna(v, "Unscored"), {"/", ""}, "Unscored")

CleanRow(r) ==
    [r EXCEPT !.cells = [c \in Cols |->
        IF c = "Scoring" THEN CleanScoring(r.cells[c]) ELSE r.cells[c]]]

\* load_data whose FileNotFoundError handler shows nothing.
load_data_SilentNotFound(f) ==
    CASE f.status = "ok" ->
            [value |-> DataFrame([i \in 1..Len(f.lines) |-> CleanRow(read_csv(f)[i])]),
             msgs |-> <<>>]
      [] f.status = "not_found" -> [value |-> None, msgs |-> <<>>]
      [] OTHER ->
            [value |-> None, msgs |-> <<"error: exception while loading">>]

\* The value load_data returns and the message it shows.
load_data(f) ==
    CASE f.status = "ok" ->
            [value |-> DataFrame([i \in 1..Len(f.lines) |-> CleanRow(read_csv(f)[i])]),
             msgs |-> <<>>]
      [] f.status = "not_found" ->
            [value |-> None, msgs |-> <<"error: file not found">>]
      [] OTHER ->
            [value |-> None, msgs |-> <<"error: exception while loading">>]

----
\* Series.dropna().unique(), as a set (sorted() only orders the widget).
unique_dropna(rows, col) == {rows[i].cells[col] : i \in 1..Len(rows)} \ {NaN}

\* Series.isin(values), row-wise.
isin(v, values) == v \in values

\* FilterBySelection without the truthiness guard: the mask is always applied.
FilterBySelection_AlwaysMask(rows, col, sel) ==
    SelectSeq(rows, LAMBDA r : isin(r.cells[col], sel))

\* if selected: df_filtered = df_filtered[df_filtered[col].isin(selected)]
FilterBySelection(rows, col, sel) ==
    IF sel # {}
    THEN SelectSeq(rows, LAMBDA r : isin(r.cells[col], sel))
    ELSE rows

\* Series.astype(str): a missing value becomes the text "nan".
astype_str(v) == IF v = NaN THEN "nan" ELSE v

\* Series.str.contains(pat, case=False): pat is searched as a regular
\* expression, ignoring case; "." matches any character.
MatchAt(s, pat, off) ==
    \A k \in 1..Len(pat) : pat[k] = "." \/ Lower(pat[k]) = Lower(s[off + k])

str_contains(s, pat) == \E off \in 0..(Len(s) - Len(pat)) : MatchAt(s, pat, off)

search_condition(r, term) ==
    \E c \in TextCols : str_contains(Chars(astype_str(r.cells[c])), term)

Reverse(q) == [k \in 1..Len(q) |-> q[Len(q) + 1 - k]]

\* FilterBySearch that hands the matches back in descending index order.
FilterBySearch_Reversed(rows, term) ==
    IF term # <<>>
    THEN Reverse(SelectSeq(rows, LAMBDA r : search_condition(r, term)))
    ELSE rows

FilterBySearch(rows, term) ==
    IF term # <<>>
    THEN SelectSeq(rows, LAMBDA r : search_condition(r, term))
    ELSE rows

\* ApplyFilters that leaves the Rep selection out.
ApplyFilters_SkipRep(rows, sel, term) ==
    FilterBySearch(
      FilterBySelection(
        FilterBySelection(
          FilterBySelection(
            FilterBySelection(rows, "Scoring", sel["Scoring"]),
            "Vertikal", sel["Vertikal"]),
          "Follow up", sel["Follow up"]),
        "Event Outcome", sel["Event Outcome"]),
      term)

\* The filter pipeline: the five selections in source order, then the search.
ApplyFilters(rows, sel, term) ==
    FilterBySearch(
      FilterBySelection(
        FilterBySelection(
          FilterBySelection(
            FilterBySelection(
              FilterBySelection(rows, "Scoring", sel["Scoring"]),
              "Vertikal", sel["Vertikal"]),
            "Follow up", sel["Follow up"]),
          "Rep", sel["Rep"]),
        "Event Outcome", sel["Event Outcome"]),
      term)

\* df[df[col] == v].shape[0]
CountEq(rows, col, v) == Cardinality({i \in 1..Len(rows) : rows[i].cells[col] = v})

\* LeadsOf that takes the shape of the unmasked frame.
LeadsOf_Unmasked(rows, t) ==
    IF \E i \in 1..Len(rows) : rows[i].cells["Scoring"] = t
    THEN Len(rows)
    ELSE 0

\* df[df['Scoring'] == t].shape[0] if t in df['Scoring'].values else 0
LeadsOf(rows, t) ==
    IF \E i \in 1..Len(rows) : rows[i].cells["Scoring"] = t
    THEN CountEq(rows, "Scoring", t)
    ELSE 0

\* value_counts(dropna=False): missing values are counted as a category.
value_counts_KeepNa(rows, col) ==
    [v \in {rows[i].cells[col] : i \in 1..Len(rows)} |-> CountEq(rows, col, v)]

\* Series.value_counts(): the count of each value, missing values left out.
value_counts(rows, col) ==
    [v \in unique_dropna(rows, col) |-> CountEq(rows, col, v)]

NoKpi == [total_leads |-> 0, leads_a |-> 0, leads_b |-> 0, leads_c |-> 0,
          leads_unscored |-> 0]

NoCounts == [c \in ChartCols |-> <<>>]

NoSelection == [c \in CatCols |-> {}]

----
Init ==
    /\ file \in Files
    /\ cache = [hit |-> FALSE, value |-> None, msgs |-> <<>>]
    /\ pc = "load"
    /\ df = None
    /\ options = NoSelection
    /\ selected = NoSelection
    /\ search_term = <<>>
    /\ df_filtered = <<>>
    /\ messages = <<>>
    /\ sections = {}
    /\ kpi = NoKpi
    /\ counts = NoCounts
    /\ ran = {}

\* df = load_data(): st.cache_data runs the function once and afterwards
\* returns the stored value and replays the messages the function showed.
LoadData ==
    /\ pc = "load"
    /\ LET res == IF cache.hit THEN cache ELSE load_data(file)
       IN /\ df' = res.value
          /\ messages' = res.msgs
          /\ cache' = [hit |-> TRUE, value |-> res.value, msgs |-> res.msgs]
    /\ pc' = "sidebar"
    /\ ran' = ran \cup {"load"}
    /\ UNCHANGED <<file, options, selected, search_term, df_filtered, sections,
                   kpi, counts>>

\* if df is not None: the option lists, the five multiselects (each returns
\* a subset of its options) and the search box.
Sidebar ==
    /\ pc = "sidebar"
    /\ ~df.isNone
    /\ LET opts == [c \in CatCols |-> unique_dropna(df.rows, c)]
       IN /\ options' = opts
          /\ \E s1 \in SUBSET opts["Scoring"], s2 \in SUBSET opts["Vertikal"],
                s3 \in SUBSET opts["Follow up"], s4 \in SUBSET opts["Rep"],
                s5 \in SUBSET opts["Event Outcome"] :
                selected' = [c \in CatCols |->
                    CASE c = "Scoring" -> s1
                      [] c = "Vertikal" -> s2
                      [] c = "Follow up" -> s3
                      [] c = "Rep" -> s4
                      [] c = "Event Outcome" -> s5]
    /\ search_term' \in SearchTerms
    /\ pc' = "filter"
    /\ ran' = ran \cup {"sidebar"}
    /\ UNCHANGED <<file, cache, df, df_filtered, messages, sections, kpi, counts>>

\* df_filtered = df.copy(), then the masks.
Filter ==
    /\ pc = "filter"
    /\ df_filtered' = ApplyFilters(df.rows, selected, search_term)
    /\ pc' = "main"
    /\ ran' = ran \cup {"filter"}
    /\ UNCHANGED <<file, cache, df, options, selected, search_term, messages,
                   sections, kpi, counts>>

\* else: df_filtered = pd.DataFrame(); st.warning(...)
Fallback ==
    /\ pc = "sidebar"
    /\ df.isNone
    /\ df_filtered' = <<>>
    /\ messages' = Append(messages, "warning: data could not be loaded")
    /\ pc' = "main"
    /\ ran' = ran \cup {"fallback"}
    /\ UNCHANGED <<file, cache, df, options, selected, search_term, sections,
                   kpi, counts>>

\* Render whose second branch is a plain else.
Render_WarnAlways ==
    /\ pc = "main"
    /\ IF df_filtered # <<>>
       THEN /\ kpi' = [total_leads |-> Len(df_filtered),
                       leads_a |-> LeadsOf(df_filtered, "A"),
                       leads_b |-> LeadsOf(df_filtered, "B"),
                       leads_c |-> LeadsOf(df_filtered, "C"),
                       leads_unscored |-> LeadsOf(df_filtered, "Unscored")]
            /\ counts' = [c \in ChartCols |-> value_counts(df_filtered, c)]
            /\ sections' = {"Key Metrics", "Visualizations", "Lead Details"}
            /\ UNCHANGED messages
       ELSE /\ messages' = Append(messages, "warning: no leads match")
            /\ UNCHANGED <<kpi, counts, sections>>
    /\ pc' = "done"
    /\ ran' = ran \cup {"render"}
    /\ UNCHANGED <<file, cache, df, options, selected, search_term, df_filtered>>

\* The main area: metrics, charts and table, or the no-match warning.
Render ==
    /\ pc = "main"
    /\ IF df_filtered # <<>>
       THEN /\ kpi' = [total_leads |-> Len(df_filtered),
                       leads_a |-> LeadsOf(df_filtered, "A"),
                       leads_b |-> LeadsOf(df_filtered, "B"),
                       leads_c |-> LeadsOf(df_filtered, "C"),
                       leads_unscored |-> LeadsOf(df_filtered, "Unscored")]
            /\ counts' = [c \in ChartCols |-> value_counts(df_filtered, c)]
            /\ sections' = {"Key Metrics", "Visualizations", "Lead Details"}
            /\ UNCHANGED messages
       ELSE IF ~df.isNone
       THEN /\ messages' = Append(messages, "warning: no leads match")
            /\ UNCHANGED <<kpi, counts, sections>>
       ELSE UNCHANGED <<kpi, counts, sections, messages>>
    /\ pc' = "done"
    /\ ran' = ran \cup {"render"}
    /\ UNCHANGED <<file, cache, df, options, selected, search_term, df_filtered>>

\* A widget change makes Streamlit run the script again from the top.
Rerun ==
    /\ pc = "done"
    /\ pc' = "load"
    /\ df' = None
    /\ options' = NoSelection
    /\ selected' = NoSelection
    /\ search_term' = <<>>
    /\ df_filtered' = <<>>
    /\ messages' = <<>>
    /\ sections' = {}
    /\ kpi' = NoKpi
    /\ counts' = NoCounts
    /\ ran' = {}
    /\ UNCHANGED <<file, cache>>

Next == LoadData \/ Sidebar \/ Filter \/ Fallback \/ Render \/ Rerun

Spec == Init /\ [][Next]_vars

----
(***************************************************************************)
(* Vocabulary of the properties below.                                     *)
(***************************************************************************)
\* The filter pipeline of this run has produced df_filtered.
Filtered == "filter" \in ran

\* The run has reached the end of the script.
Finished == pc = "done"

\* Row r of the loaded dataset is in the filtered view.
InView(r) == \E k \in 1..Len(df_filtered) : df_filtered[k] = r

\* The records of the dataset that satisfy P, in dataset order.
Keep(rows, P(_)) == SelectSeq(rows, P)

\* The search predicate as the script evaluates it (no term: every record).
SearchHolds(r) == search_term = <<>> \/ search_condition(r, search_term)

Missing == {NaN, "", "/"}

\* C1: with every dimension's selection equal to its full option list and an
\* empty search term, the filtered view equals the loaded dataset, records
\* with missing values included.
C1_FullSelectionIsIdentity ==
    (Filtered /\ selected = options /\ search_term = <<>>)
        => df_filtered = df.rows

\* C2: one dimension's selection empty and every other selection non-empty
\* gives a filtered view of length 0.
C2_EmptySelectionExcludesAll ==
    (Filtered /\ \E c \in CatCols :
        selected[c] = {} /\ \A d \in CatCols \ {c} : selected[d] # {})
        => Len(df_filtered) = 0

\* C2, amended: one dimension's selection empty and every other selection
\* non-empty leaves that dimension unfiltered: the view holds exactly the
\* records, missing on that dimension or not, that the other four selections
\* and the search keep, in dataset order.
C2_EmptySelectionIsNoFilter ==
    Filtered =>
        \A c \in CatCols :
            (selected[c] = {} /\ \A d \in CatCols \ {c} : selected[d] # {})
            => df_filtered =
                 Keep(df.rows, LAMBDA r :
                    /\ \A d \in CatCols \ {c} : r.cells[d] \in selected[d]
                    /\ SearchHolds(r))

C2_Witness ==
    /\ Filtered
    /\ selected["Vertikal"] = {}
    /\ \A d \in CatCols \ {"Vertikal"} : selected[d] # {}
    /\ \E k \in 1..Len(df_filtered) : df_filtered[k].cells["Vertikal"] = NaN
    /\ Len(df_filtered) < Len(df.rows)

\* C3: after load_data, no Scoring value is missing, empty or "/": each such
\* parsed value has become "Unscored", every other value is unchanged, and
\* normalizing again changes nothing.
C3_ScoringSentinel ==
    (~df.isNone /\ "load" \in ran) =>
        /\ Len(df.rows) = Len(file.lines)
        /\ \A i \in 1..Len(df.rows) :
            LET raw == read_csv(file)[i].cells["Scoring"]
                v == df.rows[i].cells["Scoring"]
            IN /\ v \notin Missing
               /\ raw \in Missing => v = "Unscored"
               /\ raw \notin Missing => v = raw
               /\ CleanScoring(v) = v

C3_Witness ==
    /\ ~df.isNone /\ "load" \in ran
    /\ \E i, j \in 1..Len(file.lines) :
        /\ file.lines[i]["Scoring"] = "/"
        /\ file.lines[j]["Scoring"] = ""
        /\ df.rows[i].cells["Scoring"] = "Unscored"
        /\ df.rows[j].cells["Scoring"] = "Unscored"

\* C4: a record is in the filtered view iff its value is in the selected set
\* of each of the five dimensions and the search predicate holds; a record
\* missing a value for a dimension is never in the view.
C4_MembershipInEveryDimension ==
    Filtered =>
        \A i \in 1..Len(df.rows) :
            LET r == df.rows[i]
            IN /\ InView(r) <=> /\ \A c \in CatCols : r.cells[c] \in selected[c]
                                /\ SearchHolds(r)
               /\ (\E c \in CatCols : r.cells[c] = NaN) => ~InView(r)

\* C4, amended: a record is in the filtered view iff its value is in the
\* selected set of each dimension whose selection is non-empty and the search
\* predicate holds; a record missing a value for a dimension is not in the
\* view whenever that dimension's selection is non-empty.
C4_MembershipInNonEmptySelections ==
    Filtered =>
        \A i \in 1..Len(df.rows) :
            LET r == df.rows[i]
            IN /\ InView(r) <=>
                    /\ \A c \in CatCols :
                          selected[c] # {} => r.cells[c] \in selected[c]
                    /\ SearchHolds(r)
               /\ \A c \in CatCols :
                    (r.cells[c] = NaN /\ selected[c] # {}) => ~InView(r)

C4_Witness ==
    /\ Filtered
    /\ \A c \in CatCols : selected[c] # {}
    /\ selected["Rep"] # options["Rep"]
    /\ \E i \in 1..Len(df.rows) :
          df.rows[i].cells["Vertikal"] = NaN /\ ~InView(df.rows[i])
    /\ \E i \in 1..Len(df.rows) : InView(df.rows[i])

\* Case-insensitive literal substring test.
LiteralContains(s, pat) ==
    \E off \in 0..(Len(s) - Len(pat)) :
        \A k \in 1..Len(pat) : Lower(pat[k]) = Lower(s[off + k])

\* C5: with a non-empty search term, a record that passed the dimension
\* filters is kept iff one of Firma, Vorname, Nachname is present and holds
\* the term as a case-insensitive literal substring; a missing field never
\* matches.
C5_SearchLiteralMissingNeverMatches ==
    (Filtered /\ search_term # <<>>) =>
        LET passed == ApplyFilters(df.rows, selected, <<>>)
        IN \A i \in 1..Len(passed) :
              InView(passed[i]) <=>
                  \E c \in TextCols :
                      /\ passed[i].cells[c] # NaN
                      /\ LiteralContains(Chars(passed[i].cells[c]), search_term)

RECURSIVE SumOver(_, _)
SumOver(f, S) ==
    IF S = {} THEN 0
    ELSE LET v == CHOOSE x \in S : TRUE IN f[v] + SumOver(f, S \ {v})

\* The sum of the counts of a breakdown.
Total(f) == SumOver(f, DOMAIN f)

\* The records of the view with no value for a column.
MissingIn(rows, col) == CountEq(rows, col, NaN)

\* C6: for every charted dimension the counts of its breakdown sum to the
\* number of records in the filtered view.
C6_BreakdownCoversTotal ==
    Finished => \A c \in ChartCols : Total(counts[c]) = Len(df_filtered)

\* C6, amended: for every charted dimension the counts of its breakdown sum
\* to the number of records in the filtered view that have a value for that
\* dimension; this is the total for Scoring, and for any dimension whose
\* selection is non-empty.
C6_BreakdownCoversPresent ==
    Finished =>
        \A c \in ChartCols :
            /\ Total(counts[c]) = Len(df_filtered) - MissingIn(df_filtered, c)
            /\ (c = "Scoring" \/ selected[c] # {}) =>
                    Total(counts[c]) = Len(df_filtered)

C6_Witness ==
    /\ Finished
    /\ sections # {}
    /\ Len(df_filtered) = 2
    /\ selected["Vertikal"] = {}
    /\ selected["Rep"] # {}
    /\ Total(counts["Vertikal"]) = 1
    /\ Total(counts["Rep"]) = 2

KnownTiers == {"A", "B", "C", "Unscored"}

\* The records of the view whose Scoring is none of the four tiers.
OtherTier(rows) ==
    Cardinality({i \in 1..Len(rows) : rows[i].cells["Scoring"] \notin KnownTiers})

\* C7: for a non-empty view the four tier counts sum to total_leads minus
\* the records of any other tier (so to total_leads when there is none, and
\* to strictly less otherwise); a tier with no record has count 0.
C7_TierSum ==
    (Finished /\ df_filtered # <<>>) =>
        LET sum == kpi.leads_a + kpi.leads_b + kpi.leads_c + kpi.leads_unscored
        IN /\ kpi.total_leads = Len(df_filtered)
           /\ sum = kpi.total_leads - OtherTier(df_filtered)
           /\ OtherTier(df_filtered) = 0 => sum = kpi.total_leads
           /\ OtherTier(df_filtered) > 0 => sum < kpi.total_leads
           /\ CountEq(df_filtered, "Scoring", "A") = 0 => kpi.leads_a = 0
           /\ CountEq(df_filtered, "Scoring", "B") = 0 => kpi.leads_b = 0
           /\ CountEq(df_filtered, "Scoring", "C") = 0 => kpi.leads_c = 0
           /\ CountEq(df_filtered, "Scoring", "Unscored") = 0
                => kpi.leads_unscored = 0

C7_Witness ==
    /\ Finished
    /\ Len(df_filtered) = 2
    /\ OtherTier(df_filtered) = 1
    /\ kpi.leads_unscored = 1
    /\ kpi.leads_a = 0

Shown(m) == \E k \in 1..Len(messages) : messages[k] = m

\* The messages shown in this run that tell the user the load failed.
LoadFailureReports ==
    Cardinality({k \in 1..Len(messages) :
        messages[k] \in {"error: file not found",
                         "error: exception while loading",
                         "warning: data could not be loaded"}})

\* What every run with a failed load has in common.
FailedLoadFallsBack ==
    /\ df.isNone
    /\ df_filtered = <<>>
    /\ ran = {"load", "fallback", "render"}
    /\ options = NoSelection /\ selected = NoSelection
    /\ sections = {} /\ kpi = NoKpi /\ counts = NoCounts

\* C8: when loading fails, load_data returns None, the filtered view is
\* empty, no filter step, metric, chart or table is computed, and the
\* failure is reported to the user once.
C8_LoadFailureReportedOnce ==
    (Finished /\ file.status # "ok") =>
        FailedLoadFallsBack /\ LoadFailureReports = 1

\* C8, amended: when loading fails, load_data returns None, the filtered
\* view is empty, no filter step, metric, chart or table is computed, and
\* the failure is reported to the user by two messages: the error load_data
\* shows for the cause, then the "Data could not be loaded" warning.
C8_LoadFailureReportedTwice ==
    (Finished /\ file.status # "ok") =>
        /\ FailedLoadFallsBack
        /\ messages = << IF file.status = "not_found"
                         THEN "error: file not found"
                         ELSE "error: exception while loading",
                         "warning: data could not be loaded" >>

C8_Witness ==
    /\ Finished
    /\ file.status = "not_found"
    /\ df.isNone
    /\ Len(messages) = 2

\* C9: the filtered view has at most as many records as the dataset, each of
\* its records is a record of the dataset, the kept records are in dataset
\* order, and the dataset is what load_data returned.
C9_ViewIsOrderedSubset ==
    Filtered =>
        /\ Len(df_filtered) <= Len(df.rows)
        /\ \A k \in 1..Len(df_filtered) :
              \E i \in 1..Len(df.rows) : df_filtered[k] = df.rows[i]
        /\ \A k, l \in 1..Len(df_filtered) :
              k < l => df_filtered[k].label < df_filtered[l].label
        /\ df = load_data(file).value

C9_Witness ==
    /\ Filtered
    /\ Len(df.rows) = 2
    /\ Len(df_filtered) = 2
    /\ search_term # <<>>
    /\ \A c \in CatCols : selected[c] # {}

====
